---- MODULE Spec2Model ----
(***************************************************************************)
(* Model of the mind-map graph component (src/components/MindMapGraph.tsx) *)
(* and of the d3 behaviours it configures: d3.hierarchy, d3.zoom with      *)
(* scaleExtent [0.1, 4], d3 transitions on the zoom transform, and the     *)
(* search effect that repaints nodes and links.                            *)
(*                                                                         *)
(* Strings are sequences of one-character strings, so that toLowerCase and *)
(* includes are computed.  Scales are fixed-point numbers with KUnit       *)
(* units per 1.0; screen coordinates are integer pixels.                   *)
(***************************************************************************)
EXTENDS Integers, Sequences, FiniteSets, TLC

VARIABLES
    data,          \* prop data: the input tree (RawNode)
    activeTab,     \* App state activeTab: "content" or "mindmap"
    dimensions,    \* useState dimensions: [width, height]
    searchQuery,   \* useState searchQuery
    root,          \* the d3 hierarchy bound to the rendered DOM (BFS order)
    layout,        \* per node: the x and y the tree layout gave it
    nodePaint,     \* per node: attributes/styles of the .node group
    linkPaint,     \* per link (keyed by target node): attributes/styles
    lastEffect,    \* which effect body ran last: "layout" or "search"
    zoomT,         \* svg.__zoom: the zoom behaviour's current transform
    gT,            \* the transform attribute of the rendered <g>
    trans,         \* the transition scheduled on the svg element, if any
    wheelActive,   \* a wheel gesture is in progress (g.wheel timer pending)
    wheelMouse,    \* the wheel gesture's g.mouse: pointer and grabbed point
    ptr,           \* the mouse gesture between mousedown and mouseup
    hovered,       \* the node whose <g> the pointer is over (0: none)
    clicks,        \* the names onNodeClick has been called with, in order
    steps,         \* number of input events taken so far (bounded)
    appState,      \* App state appState (AppState, src/types.ts)
    programName,   \* App state programName
    syllabusInput, \* App state syllabusInput: the file whose content it holds
    fileName,      \* App state fileName
    detectedSubjects,    \* App state detectedSubjects: the subjects' names
    selectedSubject,     \* App state selectedSubject
    configuringSubject,  \* App state configuringSubject (the open modal)
    focusTopic,    \* App state focusTopic
    result,        \* App state result (StudyResponse or null)
    errorMsg,      \* App state errorMsg
    requests,      \* the service calls awaited by a handler
    reads,         \* the files whose FileReader has not called onload yet
    issued         \* how many service calls have been made

\* the state of App other than activeTab
appVars == <<appState, programName, syllabusInput, fileName, detectedSubjects,
             selectedSubject, configuringSubject, focusTopic, result, errorMsg,
             requests, reads, issued>>

\* the state of the mounted MindMapGraph
graphVars == <<data, dimensions, searchQuery, root, layout, nodePaint, linkPaint,
               lastEffect, zoomT, gT, trans, wheelActive, wheelMouse, ptr,
               hovered, clicks, steps>>

vars == <<activeTab, graphVars, appVars>>

----------------------------------------------------------------------------
(* Strings *)

LowerOf(c) ==
    CASE c = "K" -> "k"
      [] c = "P" -> "p"
      [] c = "O" -> "o"
      [] c = "M" -> "m"
      [] OTHER -> c

\* String.prototype.toLowerCase
ToLowerCase(s) == [i \in 1..Len(s) |-> LowerOf(s[i])]

\* String.prototype.includes
Includes(s, sub) ==
    \E i \in 0..(Len(s) - Len(sub)) : SubSeq(s, i + 1, i + Len(sub)) = sub

----------------------------------------------------------------------------
(* Input trees (MindMapNode, src/types.ts) *)

RawNode(name, details, children) ==
    [name |-> name, details |-> details, children |-> children]

\* {Physics: [{Mechanics: [{Kinematics}]}, {Optics}]} with two-letter names
PhysicsTree ==
    RawNode(<<"P", "h">>, <<>>,
      << RawNode(<<"M", "e">>, <<>>,
           << RawNode(<<"K", "i">>, <<>>, <<>>) >>),
         RawNode(<<"O", "p">>, <<"k", "i">>, <<>>) >>)

\* a chain with a repeated name and mixed case
ChainTree ==
    RawNode(<<"k", "i">>, <<"O", "p">>,
      << RawNode(<<"O", "p">>, <<>>,
           << RawNode(<<"i", "K">>, <<>>,
                << RawNode(<<"K", "i">>, <<"p">>, <<>>) >>) >>) >>)

Trees == {PhysicsTree, ChainTree}

\* a single node whose name is the empty string and which has no children
NamelessTree == RawNode(<<>>, <<>>, <<>>)

\* a chain of n + 1 nodes
RECURSIVE ChainOf(_)
ChainOf(n) ==
    IF n = 0 THEN RawNode(<<"K", "i">>, <<>>, <<>>)
    ELSE RawNode(<<"M", "e">>, <<>>, <<ChainOf(n - 1)>>)

\* a tree whose deepest node is at depth 65
DeepTree == ChainOf(65)

\* a deep, wide first subtree beside a leaf: R > [A > [a > [p, q], b > [r, s]], B]
OverhangTree ==
    RawNode(<<"R", "o">>, <<>>,
      << RawNode(<<"A", "a">>, <<>>,
           << RawNode(<<"a", "p">>, <<>>,
                << RawNode(<<"p", "p">>, <<>>, <<>>),
                   RawNode(<<"q", "q">>, <<>>, <<>>) >>),
              RawNode(<<"b", "r">>, <<>>,
                << RawNode(<<"r", "r">>, <<>>, <<>>),
                   RawNode(<<"s", "s">>, <<>>, <<>>) >>) >>),
         RawNode(<<"B", "b">>, <<>>, <<>>) >>)

\* three children unevenly far apart: R > [A > [p, q], B > [r, s], C]
UnevenTree ==
    RawNode(<<"R", "o">>, <<>>,
      << RawNode(<<"A", "a">>, <<>>,
           << RawNode(<<"p", "p">>, <<>>, <<>>),
              RawNode(<<"q", "q">>, <<>>, <<>>) >>),
         RawNode(<<"B", "b">>, <<>>,
           << RawNode(<<"r", "r">>, <<>>, <<>>),
              RawNode(<<"s", "s">>, <<>>, <<>>) >>),
         RawNode(<<"C", "c">>, <<>>, <<>>) >>)

\* the trees the layout is studied on
LayoutTrees == Trees \cup {NamelessTree, DeepTree, OverhangTree, UnevenTree}

----------------------------------------------------------------------------
(* d3.hierarchy(data): one node per input node, numbered in the breadth-   *)
(* first order of root.descendants(); parent = 0 for the root.             *)

RECURSIVE SumChildren(_, _)
SumChildren(frontier, i) ==
    IF i = 0 THEN 0
    ELSE SumChildren(frontier, i - 1) + Len(frontier[i].raw.children)

\* variant: the children are given the depth of their parent
RECURSIVE NextFrontierFlat(_, _, _)
NextFrontierFlat(frontier, done, i) ==
    IF i > Len(frontier) THEN <<>>
    ELSE [j \in 1..Len(frontier[i].raw.children) |->
            [raw |-> frontier[i].raw.children[j],
             parent |-> done + i,
             depth |-> frontier[i].depth]]
         \o NextFrontierFlat(frontier, done, i + 1)

RECURSIVE NextFrontier(_, _, _)
NextFrontier(frontier, done, i) ==
    IF i > Len(frontier) THEN <<>>
    ELSE [j \in 1..Len(frontier[i].raw.children) |->
            [raw |-> frontier[i].raw.children[j],
             parent |-> done + i,
             depth |-> frontier[i].depth + 1]]
         \o NextFrontier(frontier, done, i + 1)

RECURSIVE Levels(_, _)
Levels(frontier, done) ==
    IF frontier = <<>> THEN <<>>
    ELSE LET n == Len(frontier)
             here == [i \in 1..n |->
                        [id |-> done + i,
                         name |-> frontier[i].raw.name,
                         details |-> frontier[i].raw.details,
                         depth |-> frontier[i].depth,
                         parent |-> frontier[i].parent,
                         children |->
                            [j \in 1..Len(frontier[i].raw.children) |->
                                done + n + SumChildren(frontier, i - 1) + j]]]
         IN  here \o Levels(NextFrontier(frontier, done, 1), done + n)

Hierarchy(tree) == Levels(<<[raw |-> tree, parent |-> 0, depth |-> 0]>>, 0)

NodeIds(nodes) == 1..Len(nodes)

\* root.links(): one link per non-root node, identified by its target
LinkIds(nodes) == {n \in NodeIds(nodes) : nodes[n].parent # 0}

----------------------------------------------------------------------------
(* d3.scaleOrdinal(d3.schemeSet3) *)

SchemeSet3 ==
    << "#8dd3c7", "#ffffb3", "#bebada", "#fb8072", "#80b1d3", "#fdb462",
       "#b3de69", "#fccde5", "#d9d9d9", "#bc80bd", "#ccebc5", "#ffed6f" >>

PaletteSize == 12

\* the scale's implicit domain after it has been called on keys, in order:
\* the keys in the order of their first occurrence
ScaleDomain(keys) ==
    LET firsts == {i \in 1..Len(keys) : \A j \in 1..(i - 1) : keys[j] # keys[i]}
    IN  [r \in 1..Cardinality(firsts) |->
            keys[CHOOSE i \in firsts : Cardinality({j \in firsts : j <= i}) = r]]

\* the colour a scale with this domain returns for a key of the domain
ScaleColour(domain, key) ==
    LET i == CHOOSE j \in 1..Len(domain) : domain[j] = key
    IN  SchemeSet3[((i - 1) % PaletteSize) + 1]

\* first paint: one scale `color` shared by all nodes, called on their
\* depths in BFS order; its domain once every circle has its fill (a key
\* keeps the place its first call gave it)
SharedScale(nodes) == ScaleDomain([i \in 1..Len(nodes) |-> nodes[i].depth])

\* reset in the search effect: a new scale is made for every node
FreshScaleFill(nodes, n) ==
    ScaleColour(ScaleDomain(<<nodes[n].depth>>), nodes[n].depth)

----------------------------------------------------------------------------
(* Layout effect: painting of links and nodes (first paint of a rebuild)   *)

RadiusOf(node) == IF node.depth = 0 THEN 10 ELSE 6

LayoutNodePaint(nodes) ==
    LET color == SharedScale(nodes)
    IN  [n \in NodeIds(nodes) |->
            [fill |-> ScaleColour(color, nodes[n].depth),
             stroke |-> "#94a3b8",
             strokeWidth |-> "2",
             r |-> RadiusOf(nodes[n]),
             textFill |-> "#1e293b",
             fontWeight |-> "normal",
             opacity |-> "1"]]

LayoutLinkPaint(nodes) ==
    [l \in LinkIds(nodes) |->
        [stroke |-> "#cbd5e1",
         strokeWidth |-> "1.5",
         strokeOpacity |-> "1",
         opacity |-> "1"]]

----------------------------------------------------------------------------
(* Search effect                                                           *)

\* "Reset all"
ResetNodes(np, nodes) ==
    [n \in DOMAIN np |->
        [np[n] EXCEPT !.fill = FreshScaleFill(nodes, n),
                      !.stroke = "#94a3b8",
                      !.r = RadiusOf(nodes[n]),
                      !.textFill = "#1e293b",
                      !.fontWeight = "normal"]]

ResetLinks(lp) ==
    [l \in DOMAIN lp |->
        [lp[l] EXCEPT !.stroke = "#cbd5e1", !.strokeOpacity = "1"]]

\* "Dim non-matches"
DimNodes(np) == [n \in DOMAIN np |-> [np[n] EXCEPT !.opacity = "0.3"]]

\* variant: the links are left as they are
DimLinksNone(lp) == lp

DimLinks(lp) == [l \in DOMAIN lp |-> [lp[l] EXCEPT !.opacity = "0.3"]]

\* variant: the name is compared as written
NameMatchesCaseSensitive(name, lowerQuery) == Includes(name, lowerQuery)

\* the filter of "Highlight Matches"
NameMatches(name, lowerQuery) == Includes(ToLowerCase(name), lowerQuery)

\* "Highlight node"
HighlightNode(p) ==
    [p EXCEPT !.opacity = "1", !.fill = "#ef4444", !.stroke = "#b91c1c",
              !.r = 10, !.textFill = "#b91c1c", !.fontWeight = "bold"]

\* variant: only the edge to the parent and the parent itself, no loop
WalkUpOnce(paints, nodes, current) ==
    IF nodes[current].parent = 0 THEN paints
    ELSE LET par == nodes[current].parent
         IN  [np |-> [paints.np EXCEPT ![par] = [@ EXCEPT !.opacity = "1"]],
              lp |-> [paints.lp EXCEPT ![current] =
                        [@ EXCEPT !.stroke = "#ef4444",
                                  !.strokeWidth = "2",
                                  !.opacity = "1"]]]

\* "Walk up parents to highlight path": while (current.parent) {...}
\* paints = [np, lp]
RECURSIVE WalkUp(_, _, _)
WalkUp(paints, nodes, current) ==
    IF nodes[current].parent = 0 THEN paints
    ELSE LET par == nodes[current].parent
             lp2 == [paints.lp EXCEPT ![current] =
                        [@ EXCEPT !.stroke = "#ef4444",
                                  !.strokeWidth = "2",
                                  !.opacity = "1"]]
             np2 == [paints.np EXCEPT ![par] = [@ EXCEPT !.opacity = "1"]]
         IN  WalkUp([np |-> np2, lp |-> lp2], nodes, par)

\* .filter(...).each(...) over the nodes in document order, from node n on
RECURSIVE HighlightFrom(_, _, _, _)
HighlightFrom(paints, nodes, lowerQuery, n) ==
    IF n > Len(nodes) THEN paints
    ELSE IF NameMatches(nodes[n].name, lowerQuery)
         THEN HighlightFrom(
                 WalkUp([paints EXCEPT !.np[n] = HighlightNode(@)], nodes, n),
                 nodes, lowerQuery, n + 1)
         ELSE HighlightFrom(paints, nodes, lowerQuery, n + 1)

\* the whole effect body, for the DOM painted as paints
SearchEffect(paints, nodes, query) ==
    LET reset == [np |-> ResetNodes(paints.np, nodes),
                  lp |-> ResetLinks(paints.lp)]
    IN  IF query = <<>> THEN reset
        ELSE HighlightFrom([np |-> DimNodes(reset.np), lp |-> DimLinks(reset.lp)],
                           nodes, ToLowerCase(query), 1)

----------------------------------------------------------------------------
(* Zoom transforms (d3-zoom Transform {k, x, y}); k is in units of 1/KUnit *)

KUnit == 1000

\* .scaleExtent([0.1, 4])
ScaleMin == 100

ScaleMax == 4000

\* handleZoom(1.2) and handleZoom(0.8)
ZoomInFactor == 1200

ZoomOutFactor == 800

\* d3.zoom() default clickDistance is 0: any movement makes the gesture a pan
ClickDistance2 == 0

Abs(n) == IF n < 0 THEN -n ELSE n

Max(a, b) == IF a > b THEN a ELSE b

Min(a, b) == IF a < b THEN a ELSE b

\* a / b rounded to the nearest integer, for b > 0
RoundDiv(a, b) == (2 * a + b) \div (2 * b)

RECURSIVE IsqrtIn(_, _, _)
IsqrtIn(n, lo, hi) ==
    IF lo >= hi THEN lo
    ELSE LET mid == (lo + hi + 1) \div 2
         IN  IF mid * mid <= n THEN IsqrtIn(n, mid, hi)
             ELSE IsqrtIn(n, lo, mid - 1)

\* Math.sqrt, rounded down
Isqrt(n) == IsqrtIn(n, 0, 46340)

\* Math.sqrt(x * x + d) for x * x + d >= 0, within 32-bit integers: beyond
\* |x| = 30000 the square does not fit and the first-order expansion is used
SqrtSumSq(x, d) ==
    IF Abs(x) <= 30000 THEN Isqrt(Max(0, x * x + d))
    ELSE Abs(x) + RoundDiv(d, 2 * Abs(x))

Transform(k, x, y) == [k |-> k, x |-> x, y |-> y]

\* d3.zoomIdentity, the value of __zoom before any zoom
ZoomIdentity == Transform(KUnit, 0, 0)

\* g.attr("transform", `translate(${margin.left},${margin.top})`)
MarginTransform == Transform(KUnit, 120, 20)

\* d3.zoomIdentity.translate(margin.left + 50, margin.top).scale(0.8)
CenteringTransform == Transform((KUnit * 8) \div 10, 120 + 50, 20)

\* the clamp of d3-zoom's scale(transform, k) to scaleExtent
ClampScale(k) == Max(ScaleMin, Min(ScaleMax, k))

\* scale(transform, k)
ScaleTo(t, k) == [t EXCEPT !.k = ClampScale(k)]

\* variant: the translate of the transform is not taken off
InvertScaleOnly(t, p) == [nx |-> p[1], ny |-> p[2], d |-> t.k]

\* transform.invert(p): a layout point, kept as the exact quotient n / d
Invert(t, p) == [nx |-> p[1] - t.x, ny |-> p[2] - t.y, d |-> t.k]

\* translate(transform, p0, p1): the layout point p1 is shown at screen p0
TranslateTo(t, p0, p1) ==
    [t EXCEPT !.x = p0[1] - RoundDiv(p1.nx * t.k, p1.d),
              !.y = p0[2] - RoundDiv(p1.ny * t.k, p1.d)]

\* defaultExtent: [[0, 0], [svg width, svg height]]; its centroid and w
Centroid(dims) == <<dims[1] \div 2, dims[2] \div 2>>

ExtentSize(dims) == Max(dims[1], dims[2])

\* zoom.scaleBy(selection, factor): scaleTo(k0 * factor) about the centroid
ScaleByTarget(t, factor, dims) ==
    LET p0 == Centroid(dims)
    IN  TranslateTo(ScaleTo(t, RoundDiv(t.k * factor, KUnit)), p0, Invert(t, p0))

\* wheel: k = clamp(k0 * 2 ^ wheelDelta)
WheelScale(k0, delta) ==
    ClampScale(IF delta >= 0 THEN k0 * (2 ^ delta) ELSE RoundDiv(k0, 2 ^ (-delta)))

----------------------------------------------------------------------------
(* d3.interpolateZoom between the views of transforms a and b about p,     *)
(* sampled once between its ends.  View = (centre in layout units, width). *)

ViewCentre(t, p) ==
    <<RoundDiv((p[1] - t.x) * KUnit, t.k), RoundDiv((p[2] - t.y) * KUnit, t.k)>>

ViewWidth(t, w) == RoundDiv(w * KUnit, t.k)

\* d2 < epsilon2: both views have the same centre, up to the rounding of
\* translates to whole pixels
SameCentre(a, b, p) ==
    /\ Abs((p[1] - b.x) * a.k - (p[1] - a.x) * b.k) * 2 <= a.k
    /\ Abs((p[2] - b.y) * a.k - (p[2] - a.y) * b.k) * 2 <= a.k

\* the transform whose view about p has centre c and width wm
ViewTransform(c, wm, p, w) ==
    LET k == RoundDiv(w * KUnit, wm)
    IN  Transform(k, p[1] - RoundDiv(c[1] * k, KUnit), p[2] - RoundDiv(c[2] * k, KUnit))

\* One sample of the path strictly between its ends.  On the general path
\* the width is w0 cosh(r0) / cosh(R); the sample is taken at the widest
\* point (R = 0) when the path passes through it, and otherwise where the
\* width is the mean of w0 and w1.  With X = w0 sinh(-r0) the centre has
\* moved by the fraction (X + sign(R) sqrt(X^2 + w0^2 - wm^2)) / (2 d1).
InterpolateMid(a, b, p, w) ==
    LET c0 == ViewCentre(a, p)
        c1 == ViewCentre(b, p)
        w0 == ViewWidth(a, w)
        w1 == ViewWidth(b, w)
        dx == c1[1] - c0[1]
        dy == c1[2] - c0[2]
        d2 == dx * dx + dy * dy
    IN  IF SameCentre(a, b, p) \/ d2 = 0
        THEN LET km == Isqrt(a.k * b.k)
             IN  TranslateTo(Transform(km, a.x, a.y), p, Invert(a, p))
        ELSE LET d1 == Max(1, Isqrt(d2))
                 X == d1 + RoundDiv((w1 - w0) * (w1 + w0), 4 * d1)
                 peak == X > 0 /\ (w1 - w0) * (w1 + w0) < 4 * d2
                 wm == IF peak THEN SqrtSumSq(X, w0 * w0) ELSE (w0 + w1) \div 2
                 rt == IF peak THEN 0 ELSE SqrtSumSq(X, (w0 - wm) * (w0 + wm))
                 U == IF X > 0 THEN X - rt ELSE X + rt
                 c == <<c0[1] + RoundDiv(dx * U, 2 * d1),
                        c0[2] + RoundDiv(dy * U, 2 * d1)>>
             IN  ViewTransform(c, wm, p, w)

----------------------------------------------------------------------------
(* d3.tree().size([innerHeight, innerWidth]) applied to the hierarchy: the *)
(* tidy-tree layout.  x is the cross-axis (vertical) and y the depth-axis  *)
(* (horizontal) coordinate of a node, each kept as an exact quotient       *)
(* num / den.                                                              *)

\* innerWidth = width - margin.left - margin.right
InnerWidth(dims) == dims[1] - 120 - 120

\* innerHeight = height - margin.top - margin.bottom
InnerHeight(dims) == dims[2] - 20 - 20

\* variant: one more level than the tree has
MaxDepthPlusOne(nodes) == nodes[Len(nodes)].depth + 1

\* the depth of the deepest node (the last one in breadth-first order)
MaxDepth(nodes) == nodes[Len(nodes)].depth

SetMax(S) == CHOOSE m \in S : \A v \in S : v <= m

SetMin(S) == CHOOSE m \in S : \A v \in S : m <= v

\* Preliminary x positions are whole multiples of 1 / unit of the sibling
\* separation: a parent is put midway between its first and last child, so
\* every node with two or more children may halve the grid once.
XUnit(nodes) ==
    2 ^ Cardinality({n \in NodeIds(nodes) : Len(nodes[n].children) >= 2})

\* the offsets, at depth d, of the nodes placed in acc (a function id -> x)
AtDepth(nodes, acc, d) == {acc[j] : j \in {i \in DOMAIN acc : nodes[i].depth = d}}

Depths(nodes, acc) == {nodes[j].depth : j \in DOMAIN acc}

\* variant: a subtree is never pushed off the ones before it
ShiftForNone(nodes, acc, r, c, unit) == 0

\* separation(a, b): 1 between siblings, 2 between nodes of different
\* parents.  The subtree r of child c (offsets relative to c) is pushed to
\* the right of the subtrees already placed, as far as the closest pair of
\* neighbours on any common depth demands.
ShiftFor(nodes, acc, r, c, unit) ==
    IF DOMAIN acc = {} THEN 0
    ELSE SetMax({SetMax(AtDepth(nodes, acc, d))
                    + (IF d = nodes[c].depth THEN unit ELSE 2 * unit)
                    - SetMin(AtDepth(nodes, r, d)) :
                 d \in Depths(nodes, acc) \cap Depths(nodes, r)})

\* firstWalk visits children before parents.  A child's id is larger than
\* its parent's, so the nodes are taken from the last to the first; done
\* holds, for the nodes taken so far, the x of every node of their subtree
\* relative to them.
SubtreeOf(nodes, done, c) == done[Len(nodes) - c + 1]

\* The children of a node, left to right; acc holds the subtrees placed so
\* far, relative to the first child.
RECURSIVE PlaceChildren(_, _, _, _, _, _)
PlaceChildren(nodes, kids, i, acc, done, unit) ==
    IF i > Len(kids) THEN acc
    ELSE LET r == SubtreeOf(nodes, done, kids[i])
             shift == ShiftFor(nodes, acc, r, kids[i], unit)
         IN  PlaceChildren(nodes, kids, i + 1,
                           acc @@ [j \in DOMAIN r |-> shift + r[j]], done, unit)

\* variant: a parent is put on its first child
NodeRelAtFirst(nodes, n, done, unit) ==
    LET kids == nodes[n].children
    IN  IF kids = <<>> THEN (n :> 0)
        ELSE LET acc == PlaceChildren(nodes, kids, 1, <<>>, done, unit)
             IN  (n :> 0) @@ [j \in DOMAIN acc |-> acc[j] - acc[kids[1]]]

\* firstWalk at node n: the x of every node of its subtree, relative to n.
\* (apportion spreads the subtrees lying between the one it moves and the
\* one it moves it off; in LayoutTrees a subtree is only ever moved off the
\* sibling next to it, and nothing lies between.)
NodeRel(nodes, n, done, unit) ==
    LET kids == nodes[n].children
    IN  IF kids = <<>> THEN (n :> 0)
        ELSE LET acc == PlaceChildren(nodes, kids, 1, <<>>, done, unit)
                 mid == (acc[kids[1]] + acc[kids[Len(kids)]]) \div 2
             IN  (n :> 0) @@ [j \in DOMAIN acc |-> acc[j] - mid]

RECURSIVE SubtreeX(_, _, _)
SubtreeX(nodes, done, unit) ==
    IF Len(done) = Len(nodes) THEN SubtreeOf(nodes, done, 1)
    ELSE SubtreeX(nodes,
                  Append(done, NodeRel(nodes, Len(nodes) - Len(done), done, unit)),
                  unit)

\* the x of every node relative to the root
RelX(nodes, unit) == SubtreeX(nodes, <<>>, unit)

\* root.eachBefore: a parent before its children, siblings in input order
RECURSIVE PreOrder(_, _)
RECURSIVE PreOrderFrom(_, _, _)
PreOrderFrom(nodes, kids, i) ==
    IF i > Len(kids) THEN <<>>
    ELSE PreOrder(nodes, kids[i]) \o PreOrderFrom(nodes, kids, i + 1)

PreOrder(nodes, n) == <<n>> \o PreOrderFrom(nodes, nodes[n].children, 1)

\* the first node of the sequence whose position is v
FirstWith(order, pos, v) ==
    order[CHOOSE i \in 1..Len(order) :
            /\ pos[order[i]] = v
            /\ \A j \in 1..(i - 1) : pos[order[j]] # v]

\* tree(root) with size [dx, dy] = [innerHeight, innerWidth]: left and right
\* are the first nodes in eachBefore order with the smallest and largest x,
\*   s = left === right ? 1 : separation(left, right) / 2
\*   node.x = (node.x + s - left.x) * dx / (right.x + s + s - left.x)
\*   node.y = node.depth * dy / (bottom.depth || 1)
TreeLayout(nodes, dims) ==
    LET unit == XUnit(nodes)
        pos == RelX(nodes, unit)
        order == PreOrder(nodes, 1)
        lo == SetMin({pos[n] : n \in NodeIds(nodes)})
        hi == SetMax({pos[n] : n \in NodeIds(nodes)})
        left == IF lo < 0 THEN FirstWith(order, pos, lo) ELSE 1
        right == IF hi > 0 THEN FirstWith(order, pos, hi) ELSE 1
        s == IF left # right /\ nodes[left].parent = nodes[right].parent
             THEN unit \div 2 ELSE unit
    IN  [n \in NodeIds(nodes) |->
            [x |-> [num |-> (pos[n] - lo + s) * InnerHeight(dims),
                    den |-> hi - lo + 2 * s],
             y |-> [num |-> nodes[n].depth * InnerWidth(dims),
                    den |-> Max(1, MaxDepth(nodes))]]]

----------------------------------------------------------------------------
(* Inputs and bounds *)

\* at most this many input events are taken in one run
MaxSteps == 3

\* queries are the strings over QueryChars of at most this length
MaxQueryLen == 2

QueryChars == {"k", "K", "i", "p"}

Queries == UNION {[1..n -> QueryChars] : n \in 0..MaxQueryLen}

\* client sizes of the wrapper <div> while the mind-map tab is shown
Containers == {<<800, 600>>, <<400, 300>>}

\* pointer positions of wheel and far mouse events
FarPoints == {<<0, 0>>, <<400, 300>>}

\* pointer positions within a few pixels of <<0, 0>>
NearPoints == {<<0, 0>>, <<3, 0>>, <<0, 6>>}

\* wheelDelta values: -event.deltaY * 0.002 (x10 with ctrlKey), as whole powers
WheelDeltas == {-4, -1, 1}

ZoomFactors == {ZoomInFactor, ZoomOutFactor}

----------------------------------------------------------------------------
(* App state (src/App.tsx) *)

\* null, for the state that holds a string or null
Null == "null"

\* the mindMap of no result
NoMindMap == RawNode(<<>>, <<>>, <<>>)

\* result = null
NoResult == [subject |-> Null, mindMap |-> NoMindMap]

\* the subjects an analysis finds, by name
Subjects == {"s1", "s2"}

\* structure.subjects of an analysis response
Analyses == {<<>>, <<"s1", "s2">>}

\* the mind map in the response for a subject
MindMapFor(subject) == IF subject = "s1" THEN PhysicsTree ELSE ChainTree

\* variant: the response parses to null
ResponseNull(r) == NoResult

\* the StudyResponse generateStudyMaterial resolves with for request r,
\* tagged with the subject it was asked for
Response(r) == [subject |-> r.subject, mindMap |-> MindMapFor(r.subject)]

\* the files the user picks; FirstFile is the one picked in the study flow
Files == {"f1", "f2"}

FirstFile == "f1"

ProgramNames == {"", "cs"}

FocusTopics == {"", "t1"}

MsgMissingInput == "Please provide both a program name and a syllabus file."

MsgAnalysisFailed ==
    "Failed to analyze syllabus structure. Please ensure the file is readable."

MsgGenerationFailed == "Failed to generate study material. Please try again."

\* the study view with the graph is rendered (the guard of the success view)
GraphShown == appState = "success" /\ result # NoResult

\* App as it is while the study view shows the result whose mind map is tree
AppShowing(tree) ==
    /\ appState = "success"
    /\ programName = "cs"
    /\ syllabusInput = "f1"
    /\ fileName = "f1"
    /\ detectedSubjects = <<"s1", "s2">>
    /\ selectedSubject = "s1"
    /\ configuringSubject = Null
    /\ focusTopic = ""
    /\ result = [subject |-> "s1", mindMap |-> tree]
    /\ errorMsg = Null
    /\ requests = {}
    /\ reads = {}
    /\ issued = 0

----------------------------------------------------------------------------
(* Component state *)

NoTransition ==
    [active |-> FALSE, a |-> ZoomIdentity, b |-> ZoomIdentity,
     p |-> <<0, 0>>, w |-> 0, sampled |-> FALSE]

\* a transition of the svg's zoom transform from `from` to `to`
ZoomTransition(from, to, dims) ==
    [active |-> TRUE, a |-> from, b |-> to,
     p |-> Centroid(dims), w |-> ExtentSize(dims), sampled |-> FALSE]

\* p0 is where the button went down (x0, y0), at is where the pointer is
\* (g.mouse[0]), mouse1 the layout point grabbed (g.mouse[1]); reach2 is the
\* largest squared distance of the pointer from p0 so far
NoGesture ==
    [down |-> FALSE, target |-> 0, p0 |-> <<0, 0>>, at |-> <<0, 0>>,
     mouse1 |-> Invert(ZoomIdentity, <<0, 0>>), moved |-> FALSE, reach2 |-> 0]

\* g.mouse of a wheel gesture that has not begun
NoWheelMouse == [at |-> <<0, 0>>, mouse1 |-> Invert(ZoomIdentity, <<0, 0>>)]

\* variant: a running transition is left to run
InterruptNone(t) == t

\* interrupt(this): the transition running or pending on the svg is dropped
Interrupt(t) == NoTransition

\* wrapperRef.current.clientWidth/clientHeight: the wrapper sits in a
\* `hidden` (display: none) <div> unless the mind-map tab is active
ClientSizes(tab) == IF tab = "mindmap" THEN Containers ELSE {<<0, 0>>}

\* variant: the client height is taken as it is
MeasuredRaw(c) == <<c[1], c[2]>>

\* handleResize: width = clientWidth, height = Math.max(600, clientHeight)
Measured(c) == <<c[1], Max(600, c[2])>>

\* The layout effect, run for (tree, dims): clears the svg, builds the
\* hierarchy, appends a new <g> with the margin translate, attaches a new
\* zoom behaviour (svg.__zoom is kept), starts the centering transition and
\* paints links and nodes.  The DOM nodes of the previous render are gone,
\* so a mouse gesture in progress no longer has a node under it and no
\* node has had a mouseover.
LayoutEffect(tree, dims, gesture) ==
    /\ root' = Hierarchy(tree)
    /\ layout' = TreeLayout(Hierarchy(tree), dims)
    /\ nodePaint' = LayoutNodePaint(Hierarchy(tree))
    /\ linkPaint' = LayoutLinkPaint(Hierarchy(tree))
    /\ lastEffect' = "layout"
    /\ gT' = MarginTransform
    /\ zoomT' = zoomT
    /\ trans' = ZoomTransition(zoomT, CenteringTransform, dims)
    /\ ptr' = IF gesture.down THEN [gesture EXCEPT !.target = 0] ELSE gesture
    /\ hovered' = 0

\* Mount: the three effects run in order with the default dimensions
\* (handleResize, layout, search with the empty query); setDimensions from
\* handleResize then re-renders and the layout effect runs again.
InitFor(trees) ==
    /\ data \in trees
    /\ activeTab \in {"content", "mindmap"}
    /\ dimensions \in {Measured(c) : c \in ClientSizes(activeTab)}
    /\ searchQuery = <<>>
    /\ root = Hierarchy(data)
    /\ layout = TreeLayout(root, dimensions)
    /\ nodePaint = LayoutNodePaint(root)
    /\ linkPaint = LayoutLinkPaint(root)
    /\ lastEffect = "layout"
    /\ zoomT = ZoomIdentity
    /\ gT = MarginTransform
    /\ trans = ZoomTransition(ZoomIdentity, CenteringTransform, dimensions)
    /\ wheelActive = FALSE
    /\ wheelMouse = NoWheelMouse
    /\ ptr = NoGesture
    /\ hovered = 0
    /\ clicks = <<>>
    /\ steps = 0
    /\ AppShowing(data)

Init == InitFor(Trees)

Step == steps < MaxSteps /\ steps' = steps + 1

----------------------------------------------------------------------------
(* Rebuild triggers: the layout effect's dependencies [data, dimensions,   *)
(* onNodeClick]                                                            *)

\* variant: the new size is stored and nothing is laid out again
ResizeNoLayout(c) ==
    /\ Step
    /\ c \in ClientSizes(activeTab)
    /\ dimensions' = Measured(c)
    /\ UNCHANGED <<data, activeTab, searchQuery, root, layout, nodePaint, linkPaint,
                   lastEffect, zoomT, gT, trans, wheelActive, wheelMouse, ptr,
                   hovered, clicks,
                   appVars>>

\* window resize -> handleResize -> setDimensions (always a new object)
Resize(c) ==
    /\ Step
    /\ c \in ClientSizes(activeTab)
    /\ dimensions' = Measured(c)
    /\ LayoutEffect(data, Measured(c), ptr)
    /\ UNCHANGED <<data, activeTab, searchQuery, wheelActive, wheelMouse,
                   clicks,
                   appVars>>

\* the data prop changes to another tree: result.mindMap of a new result
DataChange(tree) ==
    /\ Step
    /\ tree # data
    /\ data' = tree
    /\ LayoutEffect(tree, dimensions, ptr)
    /\ result' = [result EXCEPT !.mindMap = tree]
    /\ UNCHANGED <<activeTab, dimensions, searchQuery, wheelActive, wheelMouse,
                   clicks, appState, programName, syllabusInput, fileName,
                   detectedSubjects, selectedSubject, configuringSubject,
                   focusTopic, errorMsg, requests, reads, issued>>

\* App re-renders: handleNodeClick is a new function on every render
ParentRerender ==
    /\ Step
    /\ LayoutEffect(data, dimensions, ptr)
    /\ UNCHANGED <<data, activeTab, dimensions, searchQuery, wheelActive,
                   wheelMouse, clicks,
                   appVars>>

\* a tab button: setActiveTab(tab), which re-renders App
SwitchTab(tab) ==
    /\ Step
    /\ tab # activeTab
    /\ activeTab' = tab
    /\ LayoutEffect(data, dimensions, ptr)
    /\ UNCHANGED <<data, dimensions, searchQuery, wheelActive, wheelMouse,
                   clicks,
                   appVars>>

----------------------------------------------------------------------------
(* Search box *)

\* onChange -> setSearchQuery(q) -> the search effect (dependency [searchQuery])
SetQuery(q) ==
    /\ Step
    /\ activeTab = "mindmap"
    /\ q # searchQuery
    /\ searchQuery' = q
    /\ LET painted == SearchEffect([np |-> nodePaint, lp |-> linkPaint], root, q)
       IN  /\ nodePaint' = painted.np
           /\ linkPaint' = painted.lp
    /\ lastEffect' = "search"
    /\ UNCHANGED <<data, activeTab, dimensions, root, layout, zoomT, gT, trans,
                   wheelActive, wheelMouse, ptr, clicks, hovered,
                   appVars>>

----------------------------------------------------------------------------
(* Zoom behaviour: wheel, zoom buttons, transitions *)

\* translate(scale(t, k), p, p1): the zoom of a wheel event at p, the
\* layout point p1 being the one the gesture holds under the pointer
WheelZoom(t, p, p1, delta) ==
    TranslateTo(ScaleTo(t, WheelScale(t.k, delta)), p, p1)

\* wheeled(event) of d3-zoom with the pointer at p.  The first event of a
\* gesture grabs the point under the pointer and interrupts the transition;
\* a later one keeps the grabbed point while the pointer has not moved.
\* While a mouse button is down the pointer is where the last mouse event
\* left it, and the mouse gesture's grabbed point g.mouse[1] follows.
Wheel(p, delta) ==
    /\ Step
    /\ activeTab = "mindmap"
    /\ ptr.down => p = ptr.at
    /\ LET k == WheelScale(zoomT.k, delta)
           p1 == IF wheelActive /\ wheelMouse.at = p THEN wheelMouse.mouse1
                 ELSE Invert(zoomT, p)
       IN  IF ~wheelActive /\ k = zoomT.k
           THEN UNCHANGED <<zoomT, gT, trans, wheelActive, wheelMouse, ptr,
                   appVars>>
           ELSE /\ zoomT' = WheelZoom(zoomT, p, p1, delta)
                /\ gT' = zoomT'
                /\ trans' = IF wheelActive THEN trans ELSE Interrupt(trans)
                /\ wheelActive' = TRUE
                /\ wheelMouse' = [at |-> p, mouse1 |-> p1]
                /\ ptr' = IF ptr.down THEN [ptr EXCEPT !.mouse1 = p1] ELSE ptr
    /\ UNCHANGED <<data, activeTab, dimensions, searchQuery, root, layout,
                   nodePaint, linkPaint, lastEffect, clicks, hovered,
                   appVars>>

\* wheelidled: the wheel gesture ends 150 ms after its last event, and its
\* g.mouse goes with it
WheelIdle ==
    /\ wheelActive
    /\ wheelActive' = FALSE
    /\ wheelMouse' = NoWheelMouse
    /\ UNCHANGED <<data, activeTab, dimensions, searchQuery, root, layout,
                   nodePaint, linkPaint, lastEffect, zoomT, gT, trans, ptr,
                   clicks, steps, hovered,
                   appVars>>

\* handleZoom(factor): svg.transition().call(zoom.scaleBy, factor)
HandleZoom(factor) ==
    /\ Step
    /\ activeTab = "mindmap"
    /\ trans' = ZoomTransition(zoomT, ScaleByTarget(zoomT, factor, dimensions),
                               dimensions)
    /\ UNCHANGED <<data, activeTab, dimensions, searchQuery, root, layout,
                   nodePaint, linkPaint, lastEffect, zoomT, gT, wheelActive,
                   wheelMouse, ptr, clicks, hovered,
                   appVars>>

\* a frame of the running transition before its end: the tween sets __zoom
\* and the zoom listener sets the <g> transform
TransitionTick ==
    /\ trans.active
    /\ ~trans.sampled
    /\ zoomT' = InterpolateMid(trans.a, trans.b, trans.p, trans.w)
    /\ gT' = zoomT'
    /\ trans' = [trans EXCEPT !.sampled = TRUE]
    /\ UNCHANGED <<data, activeTab, dimensions, searchQuery, root, layout,
                   nodePaint, linkPaint, lastEffect, wheelActive, wheelMouse,
                   ptr, clicks, steps, hovered,
                   appVars>>

\* the last frame of the transition (t = 1): __zoom is the target
TransitionEnd ==
    /\ trans.active
    /\ zoomT' = trans.b
    /\ gT' = zoomT'
    /\ trans' = NoTransition
    /\ UNCHANGED <<data, activeTab, dimensions, searchQuery, root, layout,
                   nodePaint, linkPaint, lastEffect, wheelActive, wheelMouse,
                   ptr, clicks, steps, hovered,
                   appVars>>

----------------------------------------------------------------------------
(* Mouse gesture: mousedowned / mousemoved / mouseupped of d3-zoom, and    *)
(* the node's click listener                                               *)

Dist2(p, q) == (p[1] - q[1]) * (p[1] - q[1]) + (p[2] - q[2]) * (p[2] - q[2])

\* mousedown with the primary button at p, over node `target` (0: no node)
MouseDown(target, p) ==
    /\ Step
    /\ activeTab = "mindmap"
    /\ ~ptr.down
    /\ target \in {0} \cup NodeIds(root)
    /\ ptr' = [down |-> TRUE, target |-> target, p0 |-> p, at |-> p,
               mouse1 |-> Invert(zoomT, p), moved |-> FALSE, reach2 |-> 0]
    /\ trans' = Interrupt(trans)
    /\ UNCHANGED <<data, activeTab, dimensions, searchQuery, root, layout,
                   nodePaint, linkPaint, lastEffect, zoomT, gT, wheelActive,
                   wheelMouse, clicks, hovered,
                   appVars>>

\* mousemove to p while the button is down
MouseMove(p) ==
    /\ Step
    /\ ptr.down
    /\ ptr' = [ptr EXCEPT !.moved = @ \/ Dist2(p, ptr.p0) > ClickDistance2,
                          !.reach2 = Max(@, Dist2(p, ptr.p0)),
                          !.at = p]
    /\ zoomT' = TranslateTo(zoomT, p, ptr.mouse1)
    /\ gT' = zoomT'
    /\ UNCHANGED <<data, activeTab, dimensions, searchQuery, root, layout,
                   nodePaint, linkPaint, lastEffect, trans, wheelActive,
                   wheelMouse, clicks, hovered,
                   appVars>>

\* variant: the click is delivered whether or not the gesture moved
ClickIgnoresMoved(gesture) == gesture.target # 0

\* does the click that follows this mouseup reach the node's listener?
ClickReachesNode(gesture) == ~gesture.moved /\ gesture.target # 0

\* mouseup: the gesture ends; a click follows unless the gesture moved.
\* The node's listener calls onNodeClick(d.data.name); handleNodeClick
\* calls setActiveTab('content'), which re-renders App.
MouseUp ==
    /\ ptr.down
    /\ IF ClickReachesNode(ptr)
       THEN /\ clicks' = Append(clicks, root[ptr.target].name)
            /\ activeTab' = "content"
            /\ LayoutEffect(data, dimensions, NoGesture)
            /\ UNCHANGED <<data, dimensions, searchQuery, wheelActive,
                           wheelMouse, steps,
                   appVars>>
       ELSE /\ ptr' = NoGesture
            /\ UNCHANGED <<data, activeTab, dimensions, searchQuery, root,
                           layout, nodePaint, linkPaint, lastEffect, zoomT, gT,
                           trans, wheelActive, wheelMouse, clicks, steps,
                           hovered,
                   appVars>>

----------------------------------------------------------------------------
(* Hover: the mouseover / mouseout listeners of a node's <g>               *)

\* the pointer enters the <g> of node n
MouseOver(n) ==
    /\ Step
    /\ activeTab = "mindmap"
    /\ n \in NodeIds(root)
    /\ hovered = 0
    /\ hovered' = n
    /\ nodePaint' = [nodePaint EXCEPT ![n] =
                        [@ EXCEPT !.stroke = "#4f46e5", !.strokeWidth = "3",
                                  !.fontWeight = "bold"]]
    /\ UNCHANGED <<data, activeTab, dimensions, searchQuery, root, layout,
                   linkPaint, lastEffect, zoomT, gT, trans, wheelActive,
                   wheelMouse, ptr, clicks,
                   appVars>>

\* the pointer leaves it: the stroke goes back to "#ef4444" if the <g> has
\* the class "highlighted", which nothing gives it, and to "#94a3b8" if not
MouseOut ==
    /\ Step
    /\ hovered # 0
    /\ hovered' = 0
    /\ nodePaint' = [nodePaint EXCEPT ![hovered] =
                        [@ EXCEPT !.stroke = "#94a3b8", !.strokeWidth = "2",
                                  !.fontWeight = "normal"]]
    /\ UNCHANGED <<data, activeTab, dimensions, searchQuery, root, layout,
                   linkPaint, lastEffect, zoomT, gT, trans, wheelActive,
                   wheelMouse, ptr, clicks,
                   appVars>>

----------------------------------------------------------------------------
(* App: the handlers of src/App.tsx and the completions they await.  The   *)
(* updates a handler makes between two awaits are applied as one render.   *)

\* at most this many service calls are made in one run
MaxRequests == 3

\* first mount of MindMapGraph with data = tree: the three effects run with
\* the default dimensions, then setDimensions from handleResize re-renders
MountGraph(tree) ==
    /\ data' = tree
    /\ dimensions' \in {Measured(c) : c \in ClientSizes(activeTab')}
    /\ searchQuery' = <<>>
    /\ root' = Hierarchy(tree)
    /\ layout' = TreeLayout(Hierarchy(tree), dimensions')
    /\ nodePaint' = LayoutNodePaint(Hierarchy(tree))
    /\ linkPaint' = LayoutLinkPaint(Hierarchy(tree))
    /\ lastEffect' = "layout"
    /\ zoomT' = ZoomIdentity
    /\ gT' = MarginTransform
    /\ trans' = ZoomTransition(ZoomIdentity, CenteringTransform, dimensions')
    /\ wheelActive' = FALSE
    /\ wheelMouse' = NoWheelMouse
    /\ ptr' = NoGesture
    /\ hovered' = 0
    /\ UNCHANGED <<clicks, steps>>

\* App renders again while MindMapGraph is mounted: the layout effect runs
RerenderGraph(tree) ==
    /\ data' = tree
    /\ LayoutEffect(tree, dimensions, ptr)
    /\ UNCHANGED <<dimensions, searchQuery, wheelActive, wheelMouse, clicks,
                   steps>>

\* what the render after an App update does to MindMapGraph: mounted when
\* the success view appears, rendered again while it stays, unmounted (its
\* state is no longer read) otherwise
Render ==
    IF appState' = "success" /\ result' # NoResult
    THEN IF GraphShown THEN RerenderGraph(result'.mindMap)
         ELSE MountGraph(result'.mindMap)
    ELSE UNCHANGED graphVars

\* the program name <input>: onChange -> setProgramName
SetProgramName(name) ==
    /\ appState = "idle"
    /\ name # programName
    /\ programName' = name
    /\ UNCHANGED <<activeTab, appState, syllabusInput, fileName, detectedSubjects,
                   selectedSubject, configuringSubject, focusTopic, result,
                   errorMsg, requests, reads, issued>>
    /\ Render

\* handleFileUpload: setFileName, and a FileReader starts reading the file
HandleFileUpload(file) ==
    /\ appState = "idle"
    /\ fileName' = file
    /\ reads' = reads \cup {file}
    /\ UNCHANGED <<activeTab, appState, programName, syllabusInput,
                   detectedSubjects, selectedSubject, configuringSubject,
                   focusTopic, result, errorMsg, requests, issued>>
    /\ Render

\* reader.onload: setSyllabusInput with what was read
ReaderOnload(file) ==
    /\ file \in reads
    /\ reads' = reads \ {file}
    /\ syllabusInput' = file
    /\ UNCHANGED <<activeTab, appState, programName, fileName, detectedSubjects,
                   selectedSubject, configuringSubject, focusTopic, result,
                   errorMsg, requests, issued>>
    /\ Render

\* variant: only the program name is looked at
MissingInputNameOnly == programName = ""

\* !programName || !syllabusInput
MissingInput == programName = "" \/ syllabusInput = Null

\* handleAnalyzeSyllabus up to its await (the form is rendered in 'idle')
HandleAnalyzeSyllabus ==
    /\ appState = "idle"
    /\ IF MissingInput
       THEN /\ errorMsg' = MsgMissingInput
            /\ UNCHANGED <<appState, requests, issued>>
       ELSE /\ issued < MaxRequests
            /\ appState' = "analyzing-syllabus"
            /\ errorMsg' = Null
            /\ issued' = issued + 1
            /\ requests' = requests \cup
                  {[id |-> issued + 1, kind |-> "analyze", subject |-> Null]}
    /\ UNCHANGED <<activeTab, programName, syllabusInput, fileName,
                   detectedSubjects, selectedSubject, configuringSubject,
                   focusTopic, result, reads>>
    /\ Render

\* handleAnalyzeSyllabus after its await resolved with structure.subjects
AnalysisResolves(r, subjects) ==
    /\ r \in requests
    /\ r.kind = "analyze"
    /\ requests' = requests \ {r}
    /\ detectedSubjects' = subjects
    /\ appState' = "selecting-subject"
    /\ UNCHANGED <<activeTab, programName, syllabusInput, fileName,
                   selectedSubject, configuringSubject, focusTopic, result,
                   errorMsg, reads, issued>>
    /\ Render

\* variant: the catch block only sets the message
AnalysisRejectsSilently(r) ==
    /\ r \in requests
    /\ r.kind = "analyze"
    /\ requests' = requests \ {r}
    /\ errorMsg' = MsgAnalysisFailed
    /\ UNCHANGED <<activeTab, appState, programName, syllabusInput, fileName,
                   detectedSubjects, selectedSubject, configuringSubject,
                   focusTopic, result, reads, issued>>
    /\ Render

\* handleAnalyzeSyllabus: the catch block
AnalysisRejects(r) ==
    /\ r \in requests
    /\ r.kind = "analyze"
    /\ requests' = requests \ {r}
    /\ appState' = "error"
    /\ errorMsg' = MsgAnalysisFailed
    /\ UNCHANGED <<activeTab, programName, syllabusInput, fileName,
                   detectedSubjects, selectedSubject, configuringSubject,
                   focusTopic, result, reads, issued>>
    /\ Render

\* handleSubjectClick: a subject card of the 'selecting-subject' view
HandleSubjectClick(subject) ==
    /\ appState = "selecting-subject"
    /\ \E i \in 1..Len(detectedSubjects) : detectedSubjects[i] = subject
    /\ configuringSubject' = subject
    /\ focusTopic' = ""
    /\ UNCHANGED <<activeTab, appState, programName, syllabusInput, fileName,
                   detectedSubjects, selectedSubject, result, errorMsg, requests,
                   reads, issued>>
    /\ Render

\* the topic buttons and the topic <input> of the modal: setFocusTopic
SetFocusTopic(topic) ==
    /\ configuringSubject # Null
    /\ topic # focusTopic
    /\ focusTopic' = topic
    /\ UNCHANGED <<activeTab, appState, programName, syllabusInput, fileName,
                   detectedSubjects, selectedSubject, configuringSubject, result,
                   errorMsg, requests, reads, issued>>
    /\ Render

\* the close and Cancel buttons of the modal: setConfiguringSubject(null)
CloseModal ==
    /\ configuringSubject # Null
    /\ configuringSubject' = Null
    /\ UNCHANGED <<activeTab, appState, programName, syllabusInput, fileName,
                   detectedSubjects, selectedSubject, focusTopic, result,
                   errorMsg, requests, reads, issued>>
    /\ Render

\* handleGenerateContent up to its await (the button is in the modal)
HandleGenerateContent ==
    /\ configuringSubject # Null
    /\ IF syllabusInput = Null
       THEN UNCHANGED <<appState, selectedSubject, configuringSubject, requests,
                        issued>>
       ELSE /\ issued < MaxRequests
            /\ configuringSubject' = Null
            /\ selectedSubject' = configuringSubject
            /\ appState' = "generating-content"
            /\ issued' = issued + 1
            /\ requests' = requests \cup
                  {[id |-> issued + 1, kind |-> "generate",
                    subject |-> configuringSubject]}
    /\ UNCHANGED <<activeTab, programName, syllabusInput, fileName,
                   detectedSubjects, focusTopic, result, errorMsg, reads>>
    /\ Render

\* handleGenerateContent after its await resolved
GenerationResolves(r) ==
    /\ r \in requests
    /\ r.kind = "generate"
    /\ requests' = requests \ {r}
    /\ result' = Response(r)
    /\ appState' = "success"
    /\ activeTab' = "content"
    /\ UNCHANGED <<programName, syllabusInput, fileName, detectedSubjects,
                   selectedSubject, configuringSubject, focusTopic, errorMsg,
                   reads, issued>>
    /\ Render

\* handleGenerateContent: the catch block
GenerationRejects(r) ==
    /\ r \in requests
    /\ r.kind = "generate"
    /\ requests' = requests \ {r}
    /\ appState' = "error"
    /\ errorMsg' = MsgGenerationFailed
    /\ UNCHANGED <<activeTab, programName, syllabusInput, fileName,
                   detectedSubjects, selectedSubject, configuringSubject,
                   focusTopic, result, reads, issued>>
    /\ Render

\* variant: Back from 'error' always goes to the form
SafeStateIdle == "idle"

\* handleBack, case 'error': the safe state to go back to
SafeState == IF Len(detectedSubjects) > 0 THEN "selecting-subject" ELSE "idle"

\* handleBack (the Back buttons are rendered outside 'idle' and
\* 'analyzing-syllabus')
HandleBack ==
    /\ appState \notin {"idle", "analyzing-syllabus"}
    /\ CASE appState = "selecting-subject" ->
              /\ appState' = "idle"
              /\ detectedSubjects' = <<>>
              /\ syllabusInput' = Null
              /\ fileName' = Null
              /\ UNCHANGED <<result, focusTopic, selectedSubject, errorMsg>>
         [] appState = "generating-content" ->
              /\ appState' = "selecting-subject"
              /\ UNCHANGED <<detectedSubjects, syllabusInput, fileName, result,
                             focusTopic, selectedSubject, errorMsg>>
         [] appState = "success" ->
              /\ appState' = "selecting-subject"
              /\ result' = NoResult
              /\ focusTopic' = ""
              /\ selectedSubject' = ""
              /\ UNCHANGED <<detectedSubjects, syllabusInput, fileName, errorMsg>>
         [] appState = "error" ->
              /\ appState' = SafeState
              /\ errorMsg' = Null
              /\ UNCHANGED <<detectedSubjects, syllabusInput, fileName, result,
                             focusTopic, selectedSubject>>
    /\ UNCHANGED <<activeTab, programName, configuringSubject, requests, reads,
                   issued>>
    /\ Render

\* handleReset: the logo, and the Start Over button outside 'idle'
HandleReset ==
    /\ appState' = "idle"
    /\ result' = NoResult
    /\ programName' = ""
    /\ fileName' = Null
    /\ syllabusInput' = Null
    /\ detectedSubjects' = <<>>
    /\ selectedSubject' = ""
    /\ configuringSubject' = Null
    /\ focusTopic' = ""
    /\ UNCHANGED <<activeTab, errorMsg, requests, reads, issued>>
    /\ Render

\* App as it is constructed; MindMapGraph is not mounted
InitApp ==
    /\ appState = "idle"
    /\ programName = ""
    /\ syllabusInput = Null
    /\ fileName = Null
    /\ detectedSubjects = <<>>
    /\ selectedSubject = ""
    /\ configuringSubject = Null
    /\ focusTopic = ""
    /\ result = NoResult
    /\ activeTab = "content"
    /\ errorMsg = Null
    /\ requests = {}
    /\ reads = {}
    /\ issued = 0
    /\ data = NoMindMap
    /\ dimensions = <<800, 600>>
    /\ searchQuery = <<>>
    /\ root = <<>>
    /\ layout = <<>>
    /\ nodePaint = <<>>
    /\ linkPaint = <<>>
    /\ lastEffect = "none"
    /\ zoomT = ZoomIdentity
    /\ gT = ZoomIdentity
    /\ trans = NoTransition
    /\ wheelActive = FALSE
    /\ wheelMouse = NoWheelMouse
    /\ ptr = NoGesture
    /\ hovered = 0
    /\ clicks = <<>>
    /\ steps = 0

\* the events of App
NextApp ==
    \/ \E name \in ProgramNames : SetProgramName(name)
    \/ HandleFileUpload(FirstFile)
    \/ ReaderOnload(FirstFile)
    \/ HandleAnalyzeSyllabus
    \/ \E r \in requests, subjects \in Analyses : AnalysisResolves(r, subjects)
    \/ \E r \in requests : AnalysisRejects(r)
    \/ \E subject \in Subjects : HandleSubjectClick(subject)
    \/ \E topic \in FocusTopics : SetFocusTopic(topic)
    \/ CloseModal
    \/ HandleGenerateContent
    \/ \E r \in requests : GenerationResolves(r)
    \/ \E r \in requests : GenerationRejects(r)
    \/ HandleBack
    \/ HandleReset

SpecApp == InitApp /\ [][NextApp]_vars

\* the form: files picked one after another, their reads, and the analysis
NextUpload ==
    \/ \E name \in ProgramNames : SetProgramName(name)
    \/ \E file \in Files : HandleFileUpload(file)
    \/ \E file \in Files : ReaderOnload(file)
    \/ HandleAnalyzeSyllabus
    \/ \E r \in requests, subjects \in Analyses : AnalysisResolves(r, subjects)
    \/ \E r \in requests : AnalysisRejects(r)
    \/ HandleBack
    \/ HandleReset

SpecUpload == InitApp /\ [][NextUpload]_vars

----------------------------------------------------------------------------
(* Specifications *)

Tabs == {"content", "mindmap"}

AllClientSizes == Containers \cup {<<0, 0>>}

\* query changes and rebuilds: the painted highlight
NextHighlight ==
    \/ \E q \in Queries : SetQuery(q)
    \/ \E n \in NodeIds(root) : MouseOver(n)
    \/ MouseOut
    \/ \E c \in AllClientSizes : Resize(c)
    \/ \E tree \in Trees : DataChange(tree)
    \/ ParentRerender
    \/ \E tab \in Tabs : SwitchTab(tab)

SpecHighlight == Init /\ [][NextHighlight]_vars

\* wheel, buttons, drags on the background, transitions and rebuilds: the
\* zoom transform
NextViewport ==
    \/ \E p \in FarPoints, delta \in WheelDeltas : Wheel(p, delta)
    \/ WheelIdle
    \/ \E factor \in ZoomFactors : HandleZoom(factor)
    \/ TransitionTick
    \/ TransitionEnd
    \/ \E p \in FarPoints : MouseDown(0, p)
    \/ \E p \in FarPoints : MouseMove(p)
    \/ MouseUp
    \/ \E c \in Containers : Resize(c)

\* the tree plays no part in the zoom transform, and only a shown graph
\* receives wheel and mouse events: one tree, mind-map tab active
InitViewport == Init /\ data = PhysicsTree /\ activeTab = "mindmap"

SpecViewport == InitViewport /\ [][NextViewport]_vars

\* mouse gestures over nodes and the clicks they produce
NextPointer ==
    \/ \E target \in {0} \cup NodeIds(root), p \in NearPoints : MouseDown(target, p)
    \/ \E p \in NearPoints \cup FarPoints : MouseMove(p)
    \/ MouseUp
    \/ \E tab \in Tabs : SwitchTab(tab)
    \/ TransitionTick
    \/ TransitionEnd

SpecPointer == Init /\ [][NextPointer]_vars

\* rebuilds of the layout, on every tree the layout is studied on
NextLayout ==
    \/ \E c \in AllClientSizes : Resize(c)
    \/ \E tree \in LayoutTrees : DataChange(tree)
    \/ ParentRerender
    \/ \E tab \in Tabs : SwitchTab(tab)
    \/ TransitionTick
    \/ TransitionEnd

InitLayout == InitFor(LayoutTrees)

SpecLayout == InitLayout /\ [][NextLayout]_vars

\* rebuilds among query changes, zooms, hovers, clicks and transition
\* frames, on trees that include a single node without children
NextRelayout ==
    \/ \E c \in AllClientSizes : Resize(c)
    \/ \E tree \in Trees \cup {ChainOf(0)} : DataChange(tree)
    \/ ParentRerender
    \/ \E tab \in Tabs : SwitchTab(tab)
    \/ \E q \in {<<>>, <<"i">>} : SetQuery(q)
    \/ \E factor \in ZoomFactors : HandleZoom(factor)
    \/ Wheel(<<0, 0>>, 1)
    \/ \E n \in NodeIds(root) : MouseOver(n)
    \/ MouseOut
    \/ MouseDown(Len(root), <<0, 0>>)
    \/ MouseUp
    \/ TransitionTick
    \/ TransitionEnd

SpecRelayout == Init /\ [][NextRelayout]_vars

\* every event of the component
Next == NextHighlight \/ NextViewport \/ NextPointer

Spec == Init /\ [][Next]_vars

----------------------------------------------------------------------------
(* What a highlight should show, stated without the search effect          *)

\* name contains q as a substring, ignoring case
CaseInsensitiveContains(name, q) ==
    \E off \in 0..(Len(name) - Len(q)) :
        \A j \in 1..Len(q) : LowerOf(name[off + j]) = LowerOf(q[j])

Matching(nodes, q) ==
    {n \in NodeIds(nodes) : CaseInsensitiveContains(nodes[n].name, q)}

RECURSIVE AncestorsOf(_, _)
AncestorsOf(nodes, n) ==
    IF nodes[n].parent = 0 THEN {}
    ELSE {nodes[n].parent} \cup AncestorsOf(nodes, nodes[n].parent)

\* matched nodes and their ancestors
PathNodes(nodes, q) ==
    Matching(nodes, q) \cup UNION {AncestorsOf(nodes, m) : m \in Matching(nodes, q)}

\* the edges on the chain from some matched node to the root
PathEdges(nodes, q) == PathNodes(nodes, q) \cap LinkIds(nodes)

SearchRanNonEmpty == lastEffect = "search" /\ searchQuery # <<>>

ShownPaint == [np |-> nodePaint, lp |-> linkPaint]

FreshPaint(nodes) == [np |-> LayoutNodePaint(nodes), lp |-> LayoutLinkPaint(nodes)]

----------------------------------------------------------------------------
(* Claims *)

\* C1: after any sequence of wheel zooms, zoom buttons, drags, rebuilds and
\* transition frames the scale of the zoom transform is within [0.1, 4].
\* (Fails: a frame of the centering transition can be zoomed out further.)
C1_ScaleWithinExtent == ScaleMin <= zoomT.k /\ zoomT.k <= ScaleMax

\* C2: once the search effect has run for a non-empty query, every ancestor
\* of a matching node is un-dimmed and every edge on the chain from a
\* matching node to the root is painted as highlighted and un-dimmed.
C2_PathToRootHighlighted ==
    SearchRanNonEmpty =>
        \A m \in Matching(root, searchQuery) :
            /\ \A a \in AncestorsOf(root, m) : nodePaint[a].opacity = "1"
            /\ \A e \in ({m} \cup AncestorsOf(root, m)) \cap LinkIds(root) :
                  linkPaint[e].stroke = "#ef4444" /\ linkPaint[e].opacity = "1"

\* a match at depth >= 2 whose ancestors do not all match has been painted
C2_Witness ==
    /\ SearchRanNonEmpty
    /\ \E m \in Matching(root, searchQuery) :
          /\ root[m].depth >= 2
          /\ \E a \in AncestorsOf(root, m) :
                a \notin Matching(root, searchQuery) /\ nodePaint[a].opacity = "1"

\* C3: whenever the query is empty no node or edge is shown as matched,
\* path-highlighted or dimmed.  (Fails: clearing the query does not undo
\* the dimming.)
C3_EmptyQueryShowsNothing ==
    searchQuery = <<>> =>
        /\ \A n \in NodeIds(root) :
              nodePaint[n].opacity = "1" /\ nodePaint[n].fill # "#ef4444"
        /\ \A e \in LinkIds(root) :
              linkPaint[e].opacity = "1" /\ linkPaint[e].stroke # "#ef4444"

\* C4: after a rebuild with a non-empty query the shown highlight is the
\* highlight of (current hierarchy, current query).  (Fails: the rebuilt
\* view shows no highlight at all.)
C4_HighlightSurvivesRebuild ==
    (lastEffect = "layout" /\ searchQuery # <<>>) =>
        /\ {n \in NodeIds(root) : nodePaint[n].fill = "#ef4444"}
              = Matching(root, searchQuery)
        /\ {n \in NodeIds(root) : nodePaint[n].opacity = "1"}
              = PathNodes(root, searchQuery)
        /\ {e \in LinkIds(root) : linkPaint[e].stroke = "#ef4444"}
              = PathEdges(root, searchQuery)

\* C5: after any sequence of query changes the painted state is the one a
\* full repaint gives: the first paint of the layout followed by the
\* highlight of the last query.  (Fails: earlier queries leave traces.)
C5_PaintIsFullRepaint ==
    lastEffect = "search" => ShownPaint = SearchEffect(FreshPaint(root), root, searchQuery)

\* C6: once the search effect has run for a non-empty query, a node is
\* dimmed iff it is neither matched nor an ancestor of a match, and an edge
\* is dimmed iff it is on no chain from a match to the root.
C6_DimmedIffOffPath ==
    SearchRanNonEmpty =>
        /\ \A n \in NodeIds(root) :
              nodePaint[n].opacity = "0.3" <=> n \notin PathNodes(root, searchQuery)
        /\ \A e \in LinkIds(root) :
              linkPaint[e].opacity = "0.3" <=> e \notin PathEdges(root, searchQuery)

\* a search has dimmed some node and some edge and left others un-dimmed
C6_Witness ==
    /\ SearchRanNonEmpty
    /\ \E n \in NodeIds(root) : nodePaint[n].opacity = "0.3"
    /\ \E n \in NodeIds(root) : n \notin Matching(root, searchQuery) /\ nodePaint[n].opacity = "1"
    /\ \E e \in LinkIds(root) : linkPaint[e].opacity = "0.3"
    /\ \E e \in LinkIds(root) : linkPaint[e].opacity = "1"

\* C7: once the search effect has run for a non-empty query, the nodes
\* painted as matches are exactly those whose name contains the query,
\* ignoring case; details, depth and children play no part.
C7_MatchedIsCaseInsensitiveSubstring ==
    SearchRanNonEmpty =>
        {n \in NodeIds(root) : nodePaint[n].fill = "#ef4444"} = Matching(root, searchQuery)

\* a match that differs in case from the query, beside a node whose details
\* contain the query and whose name does not
C7_Witness ==
    /\ SearchRanNonEmpty
    /\ \E n \in NodeIds(root) :
          nodePaint[n].fill = "#ef4444" /\ ~Includes(root[n].name, searchQuery)
    /\ \E n \in NodeIds(root) :
          /\ nodePaint[n].fill # "#ef4444"
          /\ Includes(ToLowerCase(root[n].details), ToLowerCase(searchQuery))

\* C8: a gesture whose pointer has moved more than 5px from where it went
\* down never calls onNodeClick, and onNodeClick is only ever called by the
\* release of a gesture that was not classified as a pan.
C8_PanNeverClicks ==
    [][/\ (ptr.down /\ ptr.reach2 > 5 * 5) => clicks' = clicks
       /\ clicks' # clicks => (ptr.down /\ ~ptr.moved /\ ~ptr'.down)]_vars

\* a gesture that went down on a node and moved more than 5px is a pan
C8_Witness == ptr.down /\ ptr.target # 0 /\ ptr.reach2 > 5 * 5 /\ ptr.moved

\* C9: releasing a gesture that went down on a node and moved less than 5px
\* calls onNodeClick exactly once, with that node's name.  (Fails: any
\* movement at all suppresses the click.)
C9_SmallMoveClicks ==
    [][(ptr.down /\ ptr.target # 0 /\ ptr.reach2 < 5 * 5 /\ ~ptr'.down)
          => clicks' = Append(clicks, root[ptr.target].name)]_vars

\* C10: a resize leaves the transform the user panned or zoomed to in
\* effect: the shown transform and __zoom stay as they were and no
\* transition to another transform starts.  (Fails: the rebuild resets the
\* <g> transform and starts the centering transition again.)
C10_ResizeKeepsViewport ==
    [][(/\ dimensions' # dimensions
        /\ ~trans.active
        /\ gT = zoomT
        /\ zoomT # CenteringTransform)
          => (/\ gT' = gT
              /\ zoomT' = zoomT
              /\ trans'.active => trans'.b = zoomT)]_vars

\* C11: while the input tree and the dimensions stay the same, no event
\* makes the layout effect run again (seen as the layout effect's paint
\* replacing the search effect's).  (Fails: every re-render of App passes
\* a new onNodeClick, which is a dependency of the layout effect.)
C11_RebuildOnlyOnInputChange ==
    [][(data' = data /\ dimensions' = dimensions)
          => ~(lastEffect = "search" /\ lastEffect' = "layout")]_vars

----------------------------------------------------------------------------
(* Viewport claims *)

\* the centering transition of the first load is running: no input event
\* has been taken since the mount
InitialCentering ==
    steps = 0 /\ trans.active /\ trans.b = CenteringTransform

ZoomedAbout(a, b, pivot) ==
    /\ Abs((b.x - pivot[1]) * a.k + (pivot[1] - a.x) * b.k) * 2 <= a.k + b.k
    /\ Abs((b.y - pivot[2]) * a.k + (pivot[2] - a.y) * b.k) * 2 <= a.k + b.k

WheelBy(t, pivot, delta) == WheelZoom(t, pivot, Invert(t, pivot), delta)

\* t2 is t again, up to the model's rounding: scales are whole multiples
\* of 1 / KUnit and translates whole pixels, and what the transform in
\* between (scale k1) loses to rounding is magnified by t.k / k1 on the way
\* back.  The scale is the same, and so is the layout point at the pivot.
Restored(t, t2, pivot, k1) ==
    /\ Abs(t2.k - t.k) * 2 * k1 <= t.k + k1
    /\ \A i \in 1..2 :
          LET at == IF i = 1 THEN t.x ELSE t.y
              at2 == IF i = 1 THEN t2.x ELSE t2.y
          IN  Abs((pivot[i] - at2) * t.k - (pivot[i] - at) * t2.k) * 2
                  <= t.k + (t.k * t2.k) \div k1 + 1

\* pairs of a button factor and its inverse, in units of 1 / KUnit
InverseFactors == {<<1250, 800>>, <<800, 1250>>, <<2000, 500>>, <<500, 2000>>}

\* a scale the clamp leaves alone
Unclamped(k) == ScaleMin <= k /\ k <= ScaleMax

\* k * 2 ^ delta
TimesPower(k, delta) ==
    IF delta >= 0 THEN k * (2 ^ delta) ELSE RoundDiv(k, 2 ^ (-delta))

\* t1 is t zoomed to the scale want1 and t2 is t1 zoomed to want2, both
\* about pivot: with neither zoom clamped t is back, and a clamped zoom
\* ends at an end of the scale extent
RoundTrip(t, t1, t2, want1, want2, pivot) ==
    /\ Unclamped(want1) => t1.k = want1
    /\ (Unclamped(want1) /\ Unclamped(want2)) => Restored(t, t2, pivot, t1.k)
    /\ ~Unclamped(want1) => t1.k \in {ScaleMin, ScaleMax}
    /\ ~Unclamped(want2) => t2.k \in {ScaleMin, ScaleMax}

\* C14: from every viewport reached, a zoom by f followed by a zoom by 1/f
\* about the same pivot gives the viewport back unless a zoom is clamped,
\* and a clamped zoom leaves the scale at 0.1 or 4.0.  Both for the wheel
\* (f = 2 ^ delta, pivot the pointer) and for scaleBy (pivot the centre of
\* the surface).
C14_ZoomThenInverseRestores ==
    /\ \A pivot \in FarPoints, delta \in {-4, -1, 1, 4} :
          LET t1 == WheelBy(zoomT, pivot, delta)
              t2 == WheelBy(t1, pivot, -delta)
          IN  RoundTrip(zoomT, t1, t2, TimesPower(zoomT.k, delta),
                        TimesPower(t1.k, -delta), pivot)
    /\ \A pair \in InverseFactors :
          LET t1 == ScaleByTarget(zoomT, pair[1], dimensions)
              t2 == ScaleByTarget(t1, pair[2], dimensions)
          IN  RoundTrip(zoomT, t1, t2, RoundDiv(zoomT.k * pair[1], KUnit),
                        RoundDiv(t1.k * pair[2], KUnit), Centroid(dimensions))

\* the wheel zoomed in by 2 at (400, 300) and out by 2 at the same point,
\* from the identity: the identity is back
C14_Witness ==
    /\ steps = 2
    /\ wheelActive
    /\ wheelMouse.at = <<400, 300>>
    /\ ~trans.active
    /\ zoomT = ZoomIdentity
    /\ WheelBy(zoomT, <<400, 300>>, 1) = Transform(2 * KUnit, -400, -300)

----------------------------------------------------------------------------
(* Layout claims *)

\* the depth of the deepest node, over all nodes
Deepest(nodes) ==
    CHOOSE d \in {nodes[n].depth : n \in NodeIds(nodes)} :
        \A n \in NodeIds(nodes) : nodes[n].depth <= d

\* every node lies within [0, width] x [0, height]
InBounds(lay, dims) ==
    \A n \in DOMAIN lay :
        /\ 0 <= lay[n].y.num /\ lay[n].y.num <= dims[1] * lay[n].y.den
        /\ 0 <= lay[n].x.num /\ lay[n].x.num <= dims[2] * lay[n].x.den

\* C16 as stated: y = depth * W / (maxDepth + 1), W being the width of the
\* surface or of the area inside the margins.  (Fails: d3.tree divides by
\* maxDepth.)
C16_SpacingOverLevels ==
    \E W \in {dimensions[1], dimensions[1] - 240} :
        \A n \in NodeIds(root) :
            layout[n].y.num * (Deepest(root) + 1)
                = root[n].depth * W * layout[n].y.den

\* C16 amended: for every node y = depth * depthSpacing with depthSpacing =
\* innerWidth / max(maxDepth, 1), innerWidth = width - 240 (the margins).
C16_SpacingOverDeepest ==
    \A n \in NodeIds(root) :
        layout[n].y.num * (IF Deepest(root) = 0 THEN 1 ELSE Deepest(root))
            = root[n].depth * (dimensions[1] - 240) * layout[n].y.den

\* a tree of three or more levels laid out in 800px: the deepest node is at
\* y = 560 and a node in between is at a fraction of it
C16_Witness ==
    /\ dimensions[1] = 800
    /\ Deepest(root) >= 2
    /\ \E n \in NodeIds(root) :
          root[n].depth = Deepest(root) /\ layout[n].y.num = 560 * layout[n].y.den
    /\ \E n \in NodeIds(root) :
          root[n].depth = 1 /\ layout[n].y.num * Deepest(root) = 560 * layout[n].y.den

\* C17: after a resize every node of the new layout lies within the new
\* bounds.  (Fails for a container narrower than the margins.)
C17_ResizeKeepsNodesInBounds ==
    [][dimensions' # dimensions => InBounds(layout', dimensions')]_vars

\* C18: while the container has zero width or height nothing is laid out
\* or painted.  (Fails: the layout effect does not look at the size.)
C18_NoLayoutAtZeroSize ==
    (dimensions[1] = 0 \/ dimensions[2] = 0)
        => (DOMAIN layout = {} /\ DOMAIN nodePaint = {} /\ DOMAIN linkPaint = {})

\* C19: for a tree whose root has an empty name nothing is rendered: no
\* node, no edge, no zoom behaviour (and so no transition on it).  (Fails:
\* the guard only tests that data is not null.)
C19_EmptyRootNameRendersNothing ==
    data.name = <<>>
        => (DOMAIN root = {} /\ DOMAIN nodePaint = {} /\ DOMAIN linkPaint = {}
            /\ ~trans.active)

\* C20: no node deeper than 64 levels is placed in the hierarchy or
\* rendered.  (Fails: d3.hierarchy takes the tree as deep as it is.)
C20_DepthBounded ==
    /\ \A n \in NodeIds(root) : root[n].depth <= 64
    /\ \A n \in DOMAIN nodePaint : root[n].depth <= 64

\* the nodes of the subtree rooted at n
SubtreeNodes(nodes, n) ==
    {m \in NodeIds(nodes) : m = n \/ n \in AncestorsOf(nodes, m)}

\* x of one node is smaller than x of another (denominators are positive)
XLess(a, b) == a.num * b.den < b.num * a.den

\* pairs <<a, b>> of siblings, a before b in the input order
SiblingPairs(nodes) ==
    UNION {LET kids == nodes[n].children
           IN  {<<kids[ij[1]], kids[ij[2]]>> :
                   ij \in {p \in (1..Len(kids)) \X (1..Len(kids)) : p[1] < p[2]}} :
           n \in NodeIds(nodes)}

\* no two nodes of one depth share an x, and an earlier sibling has the
\* smaller x
DistinctAndOrdered ==
    /\ \A n, m \in NodeIds(root) :
          (n # m /\ root[n].depth = root[m].depth) => layout[n].x # layout[m].x
    /\ \A pair \in SiblingPairs(root) :
          XLess(layout[pair[1]].x, layout[pair[2]].x)

\* C21 as stated: besides, the x interval spanned by the subtree of an
\* earlier sibling ends before the interval of a later sibling begins.
\* (Fails: the tidy tree puts a leaf under the overhang of its sibling.)
C21_SubtreeIntervalsDisjoint ==
    /\ DistinctAndOrdered
    /\ \A pair \in SiblingPairs(root) :
          \A a \in SubtreeNodes(root, pair[1]), b \in SubtreeNodes(root, pair[2]) :
              XLess(layout[a].x, layout[b].x)

\* C21 amended: no two nodes of one depth share an x, an earlier sibling
\* has the smaller x, and on every depth both reach the subtree of an
\* earlier sibling lies wholly before the subtree of a later one.
C21_SubtreesDisjointPerDepth ==
    /\ DistinctAndOrdered
    /\ \A pair \in SiblingPairs(root) :
          \A a \in SubtreeNodes(root, pair[1]), b \in SubtreeNodes(root, pair[2]) :
              root[a].depth = root[b].depth => XLess(layout[a].x, layout[b].x)

\* a leaf lies inside the x interval of its earlier sibling's subtree, and
\* two sibling subtrees share a depth below their roots
C21_Witness ==
    /\ \E pair \in SiblingPairs(root) :
          \E a \in SubtreeNodes(root, pair[1]) :
              XLess(layout[pair[2]].x, layout[a].x)
    /\ \E pair \in SiblingPairs(root) :
          \E a \in SubtreeNodes(root, pair[1]), b \in SubtreeNodes(root, pair[2]) :
              root[a].depth = root[b].depth /\ root[a].depth > root[pair[1]].depth

\* the sum of the x numerators of kids[1..i] (one layout has one denominator)
RECURSIVE SumX(_, _, _)
SumX(lay, kids, i) ==
    IF i = 0 THEN 0 ELSE SumX(lay, kids, i - 1) + lay[kids[i]].x.num

\* the nodes that have children
Internal(nodes) == {n \in NodeIds(nodes) : nodes[n].children # <<>>}

\* C22 as stated: the x of an internal node is the arithmetic mean of the x
\* of all its children.  (Fails for three children unevenly far apart.)
C22_ParentAtMeanOfChildren ==
    \A n \in Internal(root) :
        LET kids == root[n].children
        IN  /\ \A i \in 1..Len(kids) : layout[kids[i]].x.den = layout[n].x.den
            /\ layout[n].x.num * Len(kids) = SumX(layout, kids, Len(kids))

\* C22 amended: the x of an internal node is midway between the x of its
\* first child and the x of its last child.
C22_ParentMidwayFirstLast ==
    \A n \in Internal(root) :
        LET kids == root[n].children
        IN  /\ \A i \in 1..Len(kids) : layout[kids[i]].x.den = layout[n].x.den
            /\ layout[n].x.num * 2
                  = layout[kids[1]].x.num + layout[kids[Len(kids)]].x.num

\* a node with three children whose mean is not the middle of the outer two
C22_Witness ==
    \E n \in Internal(root) :
        LET kids == root[n].children
        IN  /\ Len(kids) = 3
            /\ layout[kids[2]].x.num * 2
                  # layout[kids[1]].x.num + layout[kids[3]].x.num
            /\ layout[n].x.num * 2 = layout[kids[1]].x.num + layout[kids[3]].x.num

----------------------------------------------------------------------------
(* Hierarchy claims *)

\* the children of the input nodes level[i..], in order
RECURSIVE KidsOf(_, _)
KidsOf(level, i) ==
    IF i > Len(level) THEN <<>> ELSE level[i].children \o KidsOf(level, i + 1)

\* the number of input nodes at the depth of `level` and below, added to acc
RECURSIVE CountLevels(_, _)
CountLevels(level, acc) ==
    IF Len(level) = 0 THEN acc
    ELSE CountLevels(KidsOf(level, 1), acc + Len(level))

\* the number of nodes of an input tree
CountRaw(tree) == CountLevels(<<tree>>, 0)

\* the place of node n among the children of its parent
ChildIndex(nodes, n) ==
    CHOOSE i \in 1..Len(nodes[nodes[n].parent].children) :
        nodes[nodes[n].parent].children[i] = n

\* the input node that hierarchy node n stands for, found from the root of
\* the input along the places of n's ancestors
RECURSIVE RawOf(_, _, _)
RawOf(tree, nodes, n) ==
    IF nodes[n].parent = 0 THEN tree
    ELSE RawOf(tree, nodes, nodes[n].parent).children[ChildIndex(nodes, n)]

\* C23: the hierarchy has one node per input node, children in input
\* order, the root at depth 0 and alone without a parent, every other
\* node one level below its parent and a child of that parent only.
C23_HierarchyMirrorsInput ==
    /\ Len(root) = CountRaw(data)
    /\ \A n \in NodeIds(root) :
          /\ (root[n].parent = 0) = (n = 1)
          /\ root[n].parent = 0 => root[n].depth = 0
          /\ root[n].parent # 0 =>
                /\ root[n].parent \in NodeIds(root)
                /\ root[n].depth = root[root[n].parent].depth + 1
                /\ Cardinality({<<m, i>> \in NodeIds(root) \X (1..Len(root)) :
                                   /\ i <= Len(root[m].children)
                                   /\ root[m].children[i] = n}) = 1
                /\ \E i \in 1..Len(root[root[n].parent].children) :
                      root[root[n].parent].children[i] = n
    /\ \A n \in NodeIds(root) :
          LET raw == RawOf(data, root, n)
          IN  /\ root[n].name = raw.name
              /\ root[n].details = raw.details
              /\ Len(root[n].children) = Len(raw.children)
              /\ \A i \in 1..Len(raw.children) :
                    root[root[n].children[i]].name = raw.children[i].name

\* the hierarchy of Physics > [Mechanics > [Kinematics], Optics] is built:
\* four nodes, the two children of the root in input order, one grandchild
C23_Witness ==
    /\ data = PhysicsTree
    /\ Len(root) = 4
    /\ root[1].children = <<2, 3>>
    /\ root[2].name = <<"M", "e">> /\ root[3].name = <<"O", "p">>
    /\ root[4].parent = 2 /\ root[4].depth = 2

----------------------------------------------------------------------------
(* Hover claims *)

\* C24: hovering does not change the highlight: once the pointer has left,
\* every node matched by the query that the search effect painted has the
\* highlight stroke and the bold label.  (Fails: mouseout puts back the
\* plain stroke and the normal weight.)
C24_HoverLeavesHighlight ==
    (SearchRanNonEmpty /\ hovered = 0) =>
        \A n \in Matching(root, searchQuery) :
            /\ nodePaint[n].stroke = "#b91c1c"
            /\ nodePaint[n].fontWeight = "bold"

----------------------------------------------------------------------------
(* Palette claims *)

\* the palette colour at index depth mod paletteSize
DepthColour(depth) == SchemeSet3[(depth % PaletteSize) + 1]

\* the nodes whose circle does not have the highlight fill
NotHighlighted == {n \in NodeIds(root) : nodePaint[n].fill # "#ef4444"}

\* C25: every node that is not highlighted is filled with the palette
\* colour of its depth, so two such nodes have the same fill iff their
\* depths are congruent modulo the palette size.  (Fails once the search
\* effect has run: its reset fills every circle with the first colour.)
C25_FillIsDepthColour ==
    /\ \A n \in NotHighlighted : nodePaint[n].fill = DepthColour(root[n].depth)
    /\ \A n, m \in NotHighlighted :
          (nodePaint[n].fill = nodePaint[m].fill)
              <=> (root[n].depth % PaletteSize = root[m].depth % PaletteSize)

----------------------------------------------------------------------------
(* Reproducibility of the layout *)

\* C26: the positions on screen are those of the layout of the current
\* hierarchy in the current bounds, whatever was laid out before, whatever
\* the zoom transform and the query are, and in whatever order the events
\* came: laying out again gives the same positions.
C26_LayoutIsFunctionOfInput ==
    /\ root = Hierarchy(data)
    /\ layout = TreeLayout(Hierarchy(data), dimensions)

\* the tree was laid out again after a query and a zoom, in bounds other
\* than the default ones
C26_Witness ==
    /\ searchQuery # <<>>
    /\ zoomT # ZoomIdentity
    /\ lastEffect = "layout"
    /\ dimensions = <<400, 600>>
    /\ steps = 3
    /\ layout[Len(root)].y.num = 160 * root[Len(root)].depth
    /\ layout[Len(root)].y.den = root[Len(root)].depth

----------------------------------------------------------------------------
(* Totality of the handlers *)

\* every node but the root has its parent before it, so walking up the
\* parent links ends at the root
ParentsReachRoot(nodes) ==
    /\ nodes[1].parent = 0
    /\ \A n \in NodeIds(nodes) \ {1} : nodes[n].parent \in 1..(n - 1)

\* the numbers a handler divides by are positive
FiniteNumbers ==
    /\ zoomT.k > 0
    /\ gT.k > 0
    /\ \A n \in NodeIds(root) : layout[n].x.den > 0 /\ layout[n].y.den > 0
    /\ trans.active => trans.w > 0 /\ trans.a.k > 0 /\ trans.b.k > 0

\* C27: whatever events came, on every tree (a node without children
\* included, an empty or an early query included, resizes in a row
\* included), each handler finds what it dereferences: the painted nodes
\* and links are those of the current hierarchy, the node under the pointer
\* and the node grabbed are nodes of it, the walk up the parents ends, and
\* no coordinate or transform is divided by zero.
C27_HandlersAreTotal ==
    /\ Len(root) >= 1
    /\ ParentsReachRoot(root)
    /\ DOMAIN layout = NodeIds(root)
    /\ DOMAIN nodePaint = NodeIds(root)
    /\ DOMAIN linkPaint = LinkIds(root)
    /\ hovered \in {0} \cup NodeIds(root)
    /\ ptr.target \in {0} \cup NodeIds(root)
    /\ FiniteNumbers

\* a single node without children was laid out in a hidden tab after a
\* query, and the centering transition runs
C27_Witness ==
    /\ data = ChainOf(0)
    /\ Len(root) = 1
    /\ searchQuery # <<>>
    /\ dimensions = <<0, 600>>
    /\ trans.active
    /\ lastEffect = "layout"

----------------------------------------------------------------------------
(* App: requests that complete late *)

\* the loading state a request puts App in
LoadingOf(kind) ==
    IF kind = "analyze" THEN "analyzing-syllabus" ELSE "generating-content"

\* App is still in the loading state that request r put it in: r is the
\* last call made and the user has not left its loading view
Awaited(r) == r.id = issued /\ appState = LoadingOf(r.kind)

Completed == requests \ requests'

\* C28: appState becomes 'success' or 'error' only when the request whose
\* loading state App is in completes; the completion of a request whose
\* loading state the user has left (Back, Start Over) changes neither
\* appState nor result nor detectedSubjects.
C28_LateCompletionIsIgnored ==
    [][/\ \A r \in Completed :
             \/ Awaited(r)
             \/ /\ appState' = appState
                /\ result' = result
                /\ detectedSubjects' = detectedSubjects
       /\ (appState' \in {"success", "error"} /\ appState' # appState)
             => \E r \in Completed : Awaited(r)]_vars

\* C29: once no generation is pending, the result shown in 'success' is
\* the one produced for the subject selected last (selectedSubject), in
\* whatever order the overlapping generations completed.
C29_ShownResultIsForSelectedSubject ==
    (/\ appState = "success"
     /\ selectedSubject \in Subjects
     /\ \A r \in requests : r.kind # "generate")
        => result.subject = selectedSubject

\* C30: in 'success' there is a result, so the study view is rendered.
C30_SuccessHasResult == appState = "success" => result # NoResult

\* 'success' reached for the second subject after the first generation
\* was left with Back, every request having completed
C30_Witness ==
    /\ appState = "success"
    /\ result = Response([subject |-> "s2"])
    /\ issued = MaxRequests
    /\ requests = {}
    /\ data = ChainTree

----------------------------------------------------------------------------
(* App: the subject list and the form *)

\* C31: while the subject list is shown there is a syllabus input, so
\* Generate in the modal starts a generation.
C31_SelectingHasSyllabus ==
    appState = "selecting-subject" => syllabusInput # Null

\* C32: Start Over leaves App as it was constructed: 'idle', no result, no
\* program name, no file, no subjects, none selected or being configured,
\* no focus topic, and no error message to display.
C32_ResetRestoresInitialState ==
    [][HandleReset =>
          /\ appState' = "idle"
          /\ result' = NoResult
          /\ programName' = ""
          /\ fileName' = Null
          /\ syllabusInput' = Null
          /\ detectedSubjects' = <<>>
          /\ selectedSubject' = ""
          /\ configuringSubject' = Null
          /\ focusTopic' = ""
          /\ errorMsg' = Null]_vars

\* C33: from 'idle' with no program name or no syllabus input no analysis
\* request is made, and submitting the form leaves appState at 'idle',
\* sets the error message and changes nothing else.
C33_InvalidSubmitOnlySetsMessage ==
    [][(appState = "idle" /\ (programName = "" \/ syllabusInput = Null)) =>
          /\ \A r \in requests' \ requests : r.kind # "analyze"
          /\ HandleAnalyzeSyllabus =>
                /\ appState' = "idle"
                /\ errorMsg' = MsgMissingInput
                /\ UNCHANGED <<activeTab, programName, syllabusInput, fileName,
                               detectedSubjects, selectedSubject,
                               configuringSubject, focusTopic, result, requests,
                               reads, issued, graphVars>>]_vars

\* the form was submitted with a program name and no syllabus input
C33_Witness ==
    /\ appState = "idle"
    /\ programName = "cs"
    /\ syllabusInput = Null
    /\ errorMsg = MsgMissingInput
    /\ issued = 0

----------------------------------------------------------------------------
(* App: failures *)

\* a request is rejected in this step
SomeRejects == \E r \in requests : AnalysisRejects(r) \/ GenerationRejects(r)

\* C34: a rejected analysis or generation leaves App in 'error' with a
\* message, 'error' is never without one, and Back from 'error' clears the
\* message and shows the subject list exactly if there are detected
\* subjects, the form otherwise.
C34_FailureShowsErrorAndBackRecovers ==
    [][/\ SomeRejects => appState' = "error" /\ errorMsg' # Null
       /\ appState' = "error" => errorMsg' # Null
       /\ (appState = "error" /\ HandleBack) =>
             /\ errorMsg' = Null
             /\ appState' \in {"selecting-subject", "idle"}
             /\ (appState' = "selecting-subject") = (detectedSubjects # <<>>)
             /\ detectedSubjects' = detectedSubjects]_vars

\* a generation failed after an analysis had found subjects
C34_Witness ==
    /\ appState = "error"
    /\ errorMsg = MsgGenerationFailed
    /\ detectedSubjects = <<"s1", "s2">>
    /\ requests = {}

----------------------------------------------------------------------------
(* App: files read one after another *)

\* C35: once no read is pending, syllabusInput holds what was read from
\* the file named in fileName, the one picked last, in whatever order the
\* reads finished.
C35_InputIsLastPickedFile ==
    (reads = {} /\ fileName # Null) => syllabusInput = fileName

----------------------------------------------------------------------------
(* App: loading states end *)

LoadingStates == {"analyzing-syllabus", "generating-content"}

\* the kind of request a loading state waits for
KindOf(state) == IF state = "analyzing-syllabus" THEN "analyze" ELSE "generate"

\* C36: when a request settles App is not left in the loading state of
\* that kind of request, and App is in a loading state only while a
\* request of that kind is pending: no loading view outlives its request.
C36_SettledRequestEndsLoading ==
    [][/\ \A r \in Completed : appState' # LoadingOf(r.kind)
       /\ appState' \in LoadingStates =>
             \E r \in requests' : r.kind = KindOf(appState')]_vars

\* the analysis has settled and the subject list is shown
C36_Witness ==
    /\ appState = "selecting-subject"
    /\ detectedSubjects = <<"s1", "s2">>
    /\ issued = 1
    /\ requests = {}
    /\ syllabusInput = FirstFile

====
